---- MODULE Spec2Model ----
(***************************************************************************)
(* Model of app1.py: a Flask front end over a locally loaded llama.cpp     *)
(* model.  The module-level call load_llm_model() sets the global handle   *)
(* llm once; chatbot_api answers POST /chatbot.  Texts are TLA+ strings,   *)
(* str.strip() is computed character by character, the inference engine    *)
(* and the model file are the environment (nondeterministic inputs).       *)
(* Requests are assumed to carry Content-Type application/json; the engine *)
(* raises subclasses of Exception (what "except Exception" catches).       *)
(***************************************************************************)
EXTENDS Integers, Sequences, FiniteSets, TLC

VARIABLES pc, llm, loadReturn, loadCount, reqs, served

vars ==
    <<pc, llm, loadReturn, loadCount, reqs, served>>

(***************************************************************************)
(* Bounds                                                                  *)
(***************************************************************************)
MaxRequests ==
    2

NumThreads ==
    2

Threads ==
    1..NumThreads

(***************************************************************************)
(* Literals of the source                                                  *)
(***************************************************************************)
MAX_TOKENS ==
    200

StopList ==
    <<"### User:", "\n###">>

Preamble ==
    "A chat between a curious user and an AI assistant. The assistant gives helpful, concise, and polite answers to the user's questions. " \o
    "If the assistant does not know the answer, it says so.\n\n"

UnavailableMsg ==
    "The chatbot model is not available. Check server logs."

InvalidJsonMsg ==
    "Invalid JSON or missing request body."

NoMessageMsg ==
    "No message provided"

InternalErrorMsg ==
    "An internal server error occurred while generating a response."

(***************************************************************************)
(* str.strip(): removes leading and trailing whitespace                    *)
(***************************************************************************)
Whitespace ==
    {" ", "\n", "\t", "\r"}

RECURSIVE lstrip(_)
lstrip(s) ==
    IF Len(s) > 0 /\ SubSeq(s, 1, 1) \in Whitespace
    THEN lstrip(SubSeq(s, 2, Len(s)))
    ELSE s

RECURSIVE rstrip(_)
rstrip(s) ==
    IF Len(s) > 0 /\ SubSeq(s, Len(s), Len(s)) \in Whitespace
    THEN rstrip(SubSeq(s, 1, Len(s) - 1))
    ELSE s

strip(s) ==
    rstrip(lstrip(s))

(***************************************************************************)
(* Request bodies and the Python values request.get_json makes of them     *)
(***************************************************************************)
Body(kind, mtype, text) ==
    [kind |-> kind, mtype |-> mtype, text |-> text]

NoBody ==
    Body("none", "", "")

Messages ==
    {"", " \n", "Hi", " Hi \n", "What is 2+2?", "\ta b "}

Bodies ==
    {Body(k, "", "") : k \in {"missing", "malformed", "null", "number", "string", "list"}}
    \cup {Body("object", mt, "") : mt \in {"absent", "null", "number", "list"}}
    \cup {Body("object", "string", m) : m \in Messages}

PyVal(type, text) ==
    [type |-> type, text |-> text]

PyData(type, hasMessage, message) ==
    [type |-> type, hasMessage |-> hasMessage, message |-> message]

\* json.loads of a parseable body (the JSON literal null parses to None)
json_loads(body) ==
    CASE body.kind = "null" -> PyData("NoneType", FALSE, PyVal("NoneType", ""))
      [] body.kind = "number" -> PyData("int", FALSE, PyVal("NoneType", ""))
      [] body.kind = "string" -> PyData("str", FALSE, PyVal("NoneType", ""))
      [] body.kind = "list" -> PyData("list", FALSE, PyVal("NoneType", ""))
      [] body.kind = "object" ->
            CASE body.mtype = "absent" -> PyData("dict", FALSE, PyVal("NoneType", ""))
              [] body.mtype = "null" -> PyData("dict", TRUE, PyVal("NoneType", ""))
              [] body.mtype = "number" -> PyData("dict", TRUE, PyVal("int", ""))
              [] body.mtype = "list" -> PyData("dict", TRUE, PyVal("list", ""))
              [] body.mtype = "string" -> PyData("dict", TRUE, PyVal("str", body.text))

get_json_or_empty(body) ==
    IF body.kind \in {"missing", "malformed"}
    THEN PyData("dict", FALSE, PyVal("NoneType", ""))
    ELSE json_loads(body)

\* request.get_json(silent=True): None for a missing or unparseable body,
\* otherwise the parsed value
get_json(body) ==
    IF body.kind \in {"missing", "malformed"}
    THEN PyData("NoneType", FALSE, PyVal("NoneType", ""))
    ELSE json_loads(body)

\* data.get('message', ''): the value under the key, '' when the key is absent
dict_get_message(data) ==
    IF data.hasMessage THEN data.message ELSE PyVal("str", "")

(***************************************************************************)
(* Responses, engine calls                                                 *)
(***************************************************************************)
Resp(kind, status, key, text, exc) ==
    [kind |-> kind, status |-> status, key |-> key, text |-> text, exc |-> exc]

NoResp ==
    Resp("none", 0, "", "", "")

\* jsonify({key: text}), status
Json(status, key, text) ==
    Resp("return", status, key, text, "")

\* an exception that leaves chatbot_api
Escapes(exc) ==
    Resp("raise", 0, "", "", exc)

Unavailable503 ==
    Json(503, "response", UnavailableMsg)

InvalidJson400 ==
    Json(400, "error", InvalidJsonMsg)

NoMessage400 ==
    Json(400, "error", NoMessageMsg)

Ok200(response_text) ==
    Json(200, "response", response_text)

InternalError500_leaky(e) ==
    Json(500, "response", InternalErrorMsg \o " " \o e)

\* the except branch: e goes to stderr only
InternalError500(e) ==
    Json(500, "response", InternalErrorMsg)

Call(prompt, max_tokens, stop, echo) ==
    [prompt |-> prompt, max_tokens |-> max_tokens, stop |-> stop, echo |-> echo]

NoCall ==
    Call("", 0, <<>>, FALSE)

build_prompt_short(user_message) ==
    Preamble \o "### User:\n" \o user_message \o "\n### Assistant:\n"

build_prompt(user_message) ==
    Preamble \o "### User:\n" \o user_message \o "\n\n" \o "### Assistant:\n"

llm_call(prompt) ==
    Call(prompt, MAX_TOKENS, StopList, FALSE)

(***************************************************************************)
(* chatbot_api up to the engine call                                       *)
(***************************************************************************)
Step(next, resp, call) ==
    [next |-> next, resp |-> resp, call |-> call]

Respond(resp) ==
    Step("done", resp, NoCall)

Invoke(call) ==
    Step("infer", NoResp, call)

chatbot_api_entry_parse_first(h, body) ==
    LET data == get_json(body) IN
    IF data.type = "NoneType" THEN Respond(InvalidJson400)
    ELSE IF h = "None" THEN Respond(Unavailable503)
    ELSE IF data.type # "dict" THEN Respond(Escapes("AttributeError"))
    ELSE LET raw == dict_get_message(data) IN
         IF raw.type # "str" THEN Respond(Escapes("AttributeError"))
         ELSE LET user_message == strip(raw.text) IN
              IF user_message = "" THEN Respond(NoMessage400)
              ELSE Invoke(llm_call(build_prompt(user_message)))

chatbot_api_entry_no_empty_check(h, body) ==
    IF h = "None" THEN Respond(Unavailable503)
    ELSE LET data == get_json(body) IN
         IF data.type = "NoneType" THEN Respond(InvalidJson400)
         ELSE IF data.type # "dict" THEN Respond(Escapes("AttributeError"))
         ELSE LET raw == dict_get_message(data) IN
              IF raw.type # "str" THEN Respond(Escapes("AttributeError"))
              ELSE Invoke(llm_call(build_prompt(strip(raw.text))))

chatbot_api_entry(h, body) ==
    IF h = "None" THEN Respond(Unavailable503)
    ELSE LET data == get_json(body) IN
         IF data.type = "NoneType" THEN Respond(InvalidJson400)
         ELSE IF data.type # "dict" THEN Respond(Escapes("AttributeError"))
         ELSE LET raw == dict_get_message(data) IN
              IF raw.type # "str" THEN Respond(Escapes("AttributeError"))
              ELSE LET user_message == strip(raw.text) IN
                   IF user_message = "" THEN Respond(NoMessage400)
                   ELSE Invoke(llm_call(build_prompt(user_message)))

(***************************************************************************)
(* What the engine gives back, and the extraction of the text              *)
(***************************************************************************)
Choice(hasText, text) ==
    [hasText |-> hasText, text |-> text]

Output(hasChoices, choices) ==
    [hasChoices |-> hasChoices, choices |-> choices]

NoOutput ==
    Output(FALSE, <<>>)

GenTexts ==
    {"", " 4\n", "Hello!"}

Outputs ==
    {Output(FALSE, <<>>), Output(TRUE, <<>>), Output(TRUE, <<Choice(FALSE, "")>>)}
    \cup {Output(TRUE, <<Choice(TRUE, g)>>) : g \in GenTexts}
    \cup {Output(TRUE, <<Choice(TRUE, "Hello!"), Choice(TRUE, " 4\n")>>)}

ExcTexts ==
    {"CUDA out of memory", "llama_decode returned 1"}

Extracted(ok, text, exc) ==
    [ok |-> ok, text |-> text, exc |-> exc]

\* output.get("choices", [{}])[0].get("text", "").strip()
extract_text(output) ==
    LET choices == IF output.hasChoices THEN output.choices ELSE <<Choice(FALSE, "")>> IN
    IF Len(choices) = 0 THEN Extracted(FALSE, "", "list index out of range")
    ELSE LET first == choices[1]
             text == IF first.hasText THEN first.text ELSE ""
         IN Extracted(TRUE, strip(text), "")

\* the rest of the try block after the engine returned
after_return(output) ==
    LET x == extract_text(output) IN
    IF x.ok THEN Ok200(x.text) ELSE InternalError500(x.exc)

(***************************************************************************)
(* load_llm_model                                                          *)
(***************************************************************************)
Loaded(handle, ret) ==
    [llm |-> handle, ret |-> ret]

\* before is the global before the call; the three flags are the environment:
\* os.path.exists(MODEL_PATH), Llama(...) raising, LlamaCache(llm) raising.
load_llm_model(before, fileExists, ctorRaises, cacheRaises) ==
    IF ~fileExists THEN Loaded(before, "None")
    ELSE IF ctorRaises THEN Loaded(before, "None")
    ELSE IF cacheRaises THEN Loaded("Llama", "None")
    ELSE Loaded("Llama", "Llama")

(***************************************************************************)
(* State machine                                                           *)
(***************************************************************************)
Req(p, body, call, calls, engine, exc, output, resp) ==
    [pc |-> p, body |-> body, call |-> call, calls |-> calls, engine |-> engine,
     exc |-> exc, output |-> output, resp |-> resp]

Idle ==
    Req("idle", NoBody, NoCall, 0, "", "", NoOutput, NoResp)

Init ==
    /\ pc = "boot"
    /\ llm = "None"
    /\ loadReturn = "notrun"
    /\ loadCount = 0
    /\ reqs = [t \in Threads |-> Idle]
    /\ served = 0

Startup_again ==
    /\ loadCount < 2
    /\ \E fileExists \in BOOLEAN, ctorRaises \in BOOLEAN, cacheRaises \in BOOLEAN :
          LET r == load_llm_model(llm, fileExists, ctorRaises, cacheRaises) IN
          /\ llm' = r.llm
          /\ loadReturn' = r.ret
    /\ loadCount' = loadCount + 1
    /\ pc' = "serving"
    /\ UNCHANGED <<reqs, served>>

\* line 55: the module-level call, before app.run
Startup ==
    /\ pc = "boot"
    /\ \E fileExists \in BOOLEAN, ctorRaises \in BOOLEAN, cacheRaises \in BOOLEAN :
          LET r == load_llm_model(llm, fileExists, ctorRaises, cacheRaises) IN
          /\ llm' = r.llm
          /\ loadReturn' = r.ret
    /\ loadCount' = loadCount + 1
    /\ pc' = "serving"
    /\ UNCHANGED <<reqs, served>>

\* a POST /chatbot arrives at thread t and runs up to a response or the engine call
Receive(t, body) ==
    /\ pc = "serving"
    /\ reqs[t].pc = "idle"
    /\ served < MaxRequests
    /\ LET s == chatbot_api_entry(llm, body) IN
       reqs' = [reqs EXCEPT ![t] =
                   IF s.next = "infer"
                   THEN Req("infer", body, s.call, 1, "", "", NoOutput, NoResp)
                   ELSE Req("done", body, NoCall, 0, "", "", NoOutput, s.resp)]
    /\ served' = served + 1
    /\ UNCHANGED <<pc, llm, loadReturn, loadCount>>

\* the engine call of thread t returns output
EngineReturns(t, output) ==
    /\ reqs[t].pc = "infer"
    /\ reqs' = [reqs EXCEPT ![t] =
                   Req("done", @.body, @.call, @.calls, "returned", "", output, after_return(output))]
    /\ UNCHANGED <<pc, llm, loadReturn, loadCount, served>>

\* the engine call of thread t raises an exception whose text is e
EngineRaises(t, e) ==
    /\ reqs[t].pc = "infer"
    /\ reqs' = [reqs EXCEPT ![t] =
                   Req("done", @.body, @.call, @.calls, "raised", e, NoOutput, InternalError500(e))]
    /\ UNCHANGED <<pc, llm, loadReturn, loadCount, served>>

\* the response of thread t has been sent
Reply(t) ==
    /\ reqs[t].pc = "done"
    /\ reqs' = [reqs EXCEPT ![t] = Idle]
    /\ UNCHANGED <<pc, llm, loadReturn, loadCount, served>>

Next ==
    \/ Startup
    \/ \E t \in Threads, body \in Bodies : Receive(t, body)
    \/ \E t \in Threads, output \in Outputs : EngineReturns(t, output)
    \/ \E t \in Threads, e \in ExcTexts : EngineRaises(t, e)
    \/ \E t \in Threads : Reply(t)

Spec ==
    Init /\ [][Next]_vars

(***************************************************************************)
(* Vocabulary of the properties                                            *)
(***************************************************************************)
IsWs(s, k) ==
    SubSeq(s, k, k) \in {" ", "\n", "\t", "\r"}

HasNonWhitespace(s) ==
    \E k \in 1..Len(s) : ~IsWs(s, k)

\* positions i..j of m are m without its leading and trailing whitespace
\* (j = i - 1: nothing is left)
TrimAt(m, i, j) ==
    /\ j >= i - 1
    /\ \A k \in 1..(i - 1) : IsWs(m, k)
    /\ \A k \in (j + 1)..Len(m) : IsWs(m, k)
    /\ (j >= i => ~IsWs(m, i) /\ ~IsWs(m, j))

\* t is m without its leading and trailing whitespace
IsTrimOf(t, m) ==
    \E i \in 1..(Len(m) + 1), j \in 0..Len(m) :
       TrimAt(m, i, j) /\ t = SubSeq(m, i, j)

Contains(s, sub) ==
    \E i \in 1..(Len(s) - Len(sub) + 1) : SubSeq(s, i, i + Len(sub) - 1) = sub

EndsWith(s, suffix) ==
    /\ Len(s) >= Len(suffix)
    /\ SubSeq(s, Len(s) - Len(suffix) + 1, Len(s)) = suffix

Done(t) ==
    reqs[t].pc = "done"

Ready ==
    llm = "Llama"

Is503(r) ==
    r = [kind |-> "return", status |-> 503, key |-> "response",
         text |-> "The chatbot model is not available. Check server logs.", exc |-> ""]

Is400Invalid(r) ==
    r = [kind |-> "return", status |-> 400, key |-> "error",
         text |-> "Invalid JSON or missing request body.", exc |-> ""]

Is400NoMessage(r) ==
    r = [kind |-> "return", status |-> 400, key |-> "error",
         text |-> "No message provided", exc |-> ""]

Is500(r) ==
    r = [kind |-> "return", status |-> 500, key |-> "response",
         text |-> "An internal server error occurred while generating a response.", exc |-> ""]

Is200(r) ==
    r.kind = "return" /\ r.status = 200 /\ r.key = "response" /\ r.exc = ""

\* C1: every finished POST /chatbot request, whatever its body, the handle
\* and the engine's behaviour, ended in one of the five documented JSON
\* responses; no exception left chatbot_api.
C1_EveryRequestGetsDocumentedJson ==
    \A t \in Threads :
       Done(t) =>
          LET r == reqs[t].resp IN
          Is200(r) \/ Is400Invalid(r) \/ Is400NoMessage(r) \/ Is503(r) \/ Is500(r)

\* C2: while llm is None every request, whatever its body, is answered 503
\* with the fixed message, no request reaches the engine call, and the engine
\* was invoked zero times for it.
C2_Unavailable503First ==
    llm = "None" =>
       \A t \in Threads :
          /\ reqs[t].pc # "infer"
          /\ Done(t) => Is503(reqs[t].resp) /\ reqs[t].calls = 0

C2_Witness ==
    /\ llm = "None"
    /\ \E t \in Threads : Done(t) /\ reqs[t].body.kind = "malformed"
    /\ \E t \in Threads : Done(t) /\ reqs[t].body = Body("object", "string", "Hi")

\* C3: whenever load_llm_model returned None (file missing, or an exception
\* caught in its try block), llm is None afterwards and every later request is
\* answered 503.
C3_FailedLoadLeavesUnavailable ==
    (pc = "serving" /\ loadReturn = "None") =>
       /\ llm = "None"
       /\ \A t \in Threads : Done(t) => Is503(reqs[t].resp)

\* C4: the handle is None or a Llama; load_llm_model has run exactly once
\* before any request is handled; once serving, no step (a request ending in
\* 200, 400, 500 or 503 included) changes the handle.
C4_HandleSetOnceAtStartup ==
    /\ [](/\ llm \in {"None", "Llama"}
          /\ loadCount <= 1
          /\ (served > 0 \/ \E t \in Threads : reqs[t].pc # "idle") => (pc = "serving" /\ loadCount = 1))
    /\ [][pc = "serving" => (llm' = llm /\ loadCount' = loadCount /\ pc' = pc)]_vars

C4_Witness ==
    /\ Ready
    /\ served = MaxRequests
    /\ \E t \in Threads : Done(t) /\ Is500(reqs[t].resp)
    /\ \E t \in Threads : Done(t) /\ Is400NoMessage(reqs[t].resp)

\* C5: with a ready model, every request with a JSON body whose message is
\* absent, empty or whitespace-only (the empty object, the literal null,
\* non-object values and an object with message null included) is answered
\* 400 "No message provided" without an engine call.
C5_NoMessage400 ==
    \A t \in Threads :
       LET b == reqs[t].body IN
       (/\ Done(t)
        /\ Ready
        /\ \/ b.kind \in {"null", "number", "string", "list"}
           \/ b.kind = "object" /\ b.mtype \in {"absent", "null"}
           \/ b.kind = "object" /\ b.mtype = "string" /\ ~HasNonWhitespace(b.text))
       => (Is400NoMessage(reqs[t].resp) /\ reqs[t].calls = 0)

\* C6: with a ready model a missing or unparseable body is answered 400
\* "Invalid JSON or missing request body." without an engine call; with an
\* unavailable model the same body is answered 503 (availability is checked
\* first), and it is never answered "No message provided".
C6_InvalidJson400 ==
    \A t \in Threads :
       (Done(t) /\ reqs[t].body.kind \in {"missing", "malformed"}) =>
          /\ reqs[t].calls = 0
          /\ IF Ready THEN Is400Invalid(reqs[t].resp) ELSE Is503(reqs[t].resp)

C6_Witness ==
    /\ Ready
    /\ \E t \in Threads : Done(t) /\ reqs[t].body.kind = "missing" /\ reqs[t].resp.status = 400
    /\ \E t \in Threads : Done(t) /\ reqs[t].body.kind = "malformed" /\ reqs[t].resp.status = 400

\* C7: when the inference call raised, the response is 500 with the fixed
\* message, the exception's text is not part of the response, and the handle
\* is still ready.
C7_EngineExceptionIs500 ==
    \A t \in Threads :
       (Done(t) /\ reqs[t].engine = "raised") =>
          /\ Is500(reqs[t].resp)
          /\ ~Contains(reqs[t].resp.text, reqs[t].exc)
          /\ Ready

C7_Witness ==
    \E t \in Threads :
       /\ Done(t)
       /\ reqs[t].engine = "raised"
       /\ reqs[t].exc = "CUDA out of memory"
       /\ reqs[t].resp.status = 500

\* the text the spec expects from an engine output
HasFirstText(o) ==
    o.hasChoices /\ Len(o.choices) > 0 /\ o.choices[1].hasText

\* C8: whenever the engine call returned, the response is 200 with the
\* trimmed text of the first choice under "response", and with the empty
\* string when the output has no choices key, an empty choices list or a first
\* choice without text.
C8_Success200TrimmedText ==
    \A t \in Threads :
       (Done(t) /\ reqs[t].engine = "returned") =>
          /\ Is200(reqs[t].resp)
          /\ IF HasFirstText(reqs[t].output)
             THEN IsTrimOf(reqs[t].resp.text, reqs[t].output.choices[1].text)
             ELSE reqs[t].resp.text = ""

\* C9: every engine call carries the prompt preamble + "### User:\n" +
\* trim(message) + "\n\n### Assistant:\n" and the fixed parameters
\* max_tokens 200, stop ["### User:", "\n###"], echo off.
C9_PromptAndParameters ==
    \A t \in Threads :
       reqs[t].calls > 0 =>
          LET c == reqs[t].call
              msg == reqs[t].body.text
          IN
          /\ \E i \in 1..Len(msg), j \in 1..Len(msg) :
                /\ i <= j
                /\ TrimAt(msg, i, j)
                /\ c.prompt =
                     "A chat between a curious user and an AI assistant. The assistant gives helpful, concise, and polite answers to the user's questions. If the assistant does not know the answer, it says so.\n\n"
                     \o "### User:\n" \o SubSeq(msg, i, j) \o "\n\n### Assistant:\n"
          /\ EndsWith(c.prompt, "### Assistant:\n")
          /\ c.max_tokens = 200
          /\ c.stop = <<"### User:", "\n###">>
          /\ c.echo = FALSE

C9_Witness ==
    \E t \in Threads :
       /\ reqs[t].pc = "infer"
       /\ reqs[t].body.text = " Hi \n"
       /\ Contains(reqs[t].call.prompt, "### User:\nHi\n\n")
       /\ EndsWith(reqs[t].call.prompt, "### User:\nHi\n\n### Assistant:\n")

\* C10: the engine is invoked at most once per request and only for a
\* request that found the handle ready and carried a string message that is
\* non-empty after trimming; a request answered 503 or 400 invoked it zero
\* times, a request answered 200 or 500 by the handler exactly once.
C10_EngineInvokedOnceWhenValid ==
    \A t \in Threads :
       LET r == reqs[t] IN
       /\ r.calls \in {0, 1}
       /\ r.calls = 1 =>
             /\ Ready
             /\ r.body.kind = "object" /\ r.body.mtype = "string"
             /\ HasNonWhitespace(r.body.text)
       /\ r.pc = "infer" => r.calls = 1
       /\ (Done(t) /\ r.resp.kind = "return" /\ r.resp.status \in {400, 503}) => r.calls = 0
       /\ (Done(t) /\ r.resp.kind = "return" /\ r.resp.status \in {200, 500}) => r.calls = 1
       /\ (Done(t) /\ r.resp.kind = "raise") => r.calls = 0

C10_Witness ==
    /\ \E t \in Threads : Done(t) /\ reqs[t].resp.status = 200 /\ reqs[t].calls = 1
    /\ \E t \in Threads : Done(t) /\ reqs[t].resp.status = 400 /\ reqs[t].calls = 0

====
